---- MODULE Spec2Model ----
(***************************************************************************)
(* NetraAI risk scoring engine (src/backend/risk_engine.py).               *)
(*                                                                         *)
(* The state is the snapshot the engine was constructed from (the          *)
(* companies, directors, tenders and relationships tables), the networkx   *)
(* graph its constructor built, the data_cache dictionary of               *)
(* src/backend/api.py, the Neo4j connector of src/backend/api_neo4j.py, a   *)
(* result a caller has kept from an earlier call (memo), the outcome of    *)
(* the last call (ret), and the lists of the ProcurementDataGenerator of   *)
(* src/dataset_generator.py (generator).  Python floats are modelled as exact rationals  *)
(* <<n, d>> in lowest terms with d > 0.  Identifiers are pairs <<prefix, number>>, so  *)
(* that id.startswith('COMP_') is id[1] = "COMP".  Free-text columns       *)
(* (names, descriptions) are left out.                                     *)
(***************************************************************************)
EXTENDS Integers, Sequences, FiniteSets

VARIABLES companies, directors, tenders, relationships, graph, data_cache,
          neo4j_connector, generator, memo, ret

vars == <<companies, directors, tenders, relationships, graph, data_cache,
          neo4j_connector, generator, memo, ret>>

(***************************************************************************)
(* Bounds of the model.                                                    *)
(***************************************************************************)
MaxCompanies == 7
MaxFanout == 11
MaxTenders == 8
MaxLow == 2
MaxWins == 2
MaxBids == 3
MaxClusterCompanies == 4
MaxClusterNodes == 7
MaxDepth == 2

\* get_network_graph stops expanding above GraphLimit nodes and shows at most
\* HighRiskLimit high-risk companies
GraphLimit == 50
HighRiskLimit == 20

(***************************************************************************)
(* Rational arithmetic.                                                    *)
(***************************************************************************)
Abs(x) == IF x < 0 THEN -x ELSE x

RECURSIVE GCD(_, _)
GCD(a, b) == IF b = 0 THEN a ELSE GCD(b, a % b)

Frac(n, d) ==
    LET g == GCD(Abs(n), d)
    IN  <<n \div g, d \div g>>

Zero == <<0, 1>>
One == <<1, 1>>
RAdd(a, b) == Frac(a[1] * b[2] + b[1] * a[2], a[2] * b[2])
RSub(a, b) == Frac(a[1] * b[2] - b[1] * a[2], a[2] * b[2])
RMul(a, b) == Frac(a[1] * b[1], a[2] * b[2])
RDiv(a, b) == Frac(a[1] * b[2], a[2] * b[1])
RLt(a, b) == a[1] * b[2] < b[1] * a[2]
RLe(a, b) == a[1] * b[2] <= b[1] * a[2]
RMin(a, b) == IF RLt(b, a) THEN b ELSE a

(***************************************************************************)
(* Identifiers and table rows.                                             *)
(***************************************************************************)
Comp(i) == <<"COMP", i>>
Dir(i) == <<"DIR", i>>
Tend(i) == <<"TEND", i>>
Dept(i) == <<"DEPT", i>>
NoId == <<"NONE", 0>>

CompanyRow(i, a, y, f) ==
    [company_id |-> Comp(i), address |-> a, registration_year |-> y,
     fraud_label |-> f]

TenderRow(i, v) == [tender_id |-> Tend(i), contract_value |-> v]

Rel(s, t, k) == [source_id |-> s, target_id |-> t, relationship_type |-> k]

Range(s) == {s[i] : i \in DOMAIN s}

RECURSIVE SumValues(_)
SumValues(s) == IF s = <<>> THEN 0 ELSE Head(s).contract_value + SumValues(Tail(s))

(***************************************************************************)
(* RiskScoringEngine._build_networkx_graph: every company, director and    *)
(* tender row becomes a node; every relationship row is passed to          *)
(* nx.Graph.add_edge, which creates an endpoint that is not yet a node and *)
(* overwrites the relationship_type of an edge that already exists.        *)
(***************************************************************************)
RECURSIVE AddEdges(_, _)
AddEdges(G, rows) ==
    IF rows = <<>> THEN G
    ELSE LET r == Head(rows)
             e == {r.source_id, r.target_id}
         IN  AddEdges([nodes |-> G.nodes \cup e,
                       edges |-> [x \in DOMAIN G.edges \cup {e} |->
                                    IF x = e THEN r.relationship_type
                                    ELSE G.edges[x]]],
                      Tail(rows))

\* faulty variant: the company rows are not added as nodes
build_networkx_graph_without_companies(cs, ds, ts, rs) ==
    AddEdges([nodes |-> Range(ds) \cup {t.tender_id : t \in Range(ts)},
              edges |-> [x \in {} |-> "NONE"]],
             rs)

build_networkx_graph(cs, ds, ts, rs) ==
    AddEdges([nodes |-> {c.company_id : c \in Range(cs)} \cup Range(ds)
                        \cup {t.tender_id : t \in Range(ts)},
              edges |-> [x \in {} |-> "NONE"]],
             rs)

\* an edge from a node to itself counts twice in the node's degree
Degree(G, n) ==
    Cardinality({e \in DOMAIN G.edges : n \in e})
    + (IF {n} \in DOMAIN G.edges THEN 1 ELSE 0)

RECURSIVE MaxOf(_)
MaxOf(S) ==
    LET x == CHOOSE x \in S : TRUE
    IN  IF S = {x} THEN x
        ELSE LET m == MaxOf(S \ {x}) IN IF x > m THEN x ELSE m

(***************************************************************************)
(* RiskScoringEngine._check_shared_directors                               *)
(***************************************************************************)
IsDirectorOf(r) == r.relationship_type = "DIRECTOR_OF"

\* faulty variant: the company itself is not excluded
OtherCompaniesOf_with_self(director_id, company_id) ==
    {r.target_id : r \in {x \in Range(relationships) :
        x.source_id = director_id /\ IsDirectorOf(x)}}

OtherCompaniesOf(director_id, company_id) ==
    {r.target_id : r \in {x \in Range(relationships) :
        x.source_id = director_id /\ IsDirectorOf(x) /\ x.target_id # company_id}}

\* faulty variant: the DIRECTOR_OF rows are not restricted to those of the company
check_shared_directors_any_target(company_id) ==
    LET director_rels == SelectSeq(relationships, LAMBDA r : IsDirectorOf(r))
        director_ids == {r.source_id : r \in Range(director_rels)}
        shared_companies ==
            UNION {OtherCompaniesOf(d, company_id) : d \in director_ids}
    IN  IF Len(director_rels) = 0 THEN Zero
        ELSE RMin(Frac(Cardinality(shared_companies), 10), One)

check_shared_directors(company_id) ==
    LET director_rels == SelectSeq(relationships,
            LAMBDA r : r.target_id = company_id /\ IsDirectorOf(r))
        director_ids == {r.source_id : r \in Range(director_rels)}
        shared_companies ==
            UNION {OtherCompaniesOf(d, company_id) : d \in director_ids}
    IN  IF Len(director_rels) = 0 THEN Zero
        ELSE RMin(Frac(Cardinality(shared_companies), 10), One)

(***************************************************************************)
(* RiskScoringEngine._check_tender_patterns                                *)
(***************************************************************************)
\* faulty variant: every row of the company counts as a win
WonRows_any_type(company_id) ==
    SelectSeq(relationships, LAMBDA r : r.source_id = company_id)

WonRows(company_id) ==
    SelectSeq(relationships,
        LAMBDA r : r.source_id = company_id /\ r.relationship_type = "WON")

\* faulty variant: the win frequency is taken over the number of companies
check_tender_patterns_per_company(company_id) ==
    LET won_tenders == WonRows(company_id)
        tender_ids == {r.target_id : r \in Range(won_tenders)}
        tender_values == SelectSeq(tenders, LAMBDA t : t.tender_id \in tender_ids)
    IN  IF Len(won_tenders) = 0 THEN Zero
        ELSE IF Len(tender_values) = 0 THEN Zero
        ELSE LET avg_value == Frac(SumValues(tender_values), Len(tender_values))
                 overall_mean == Frac(SumValues(tenders), Len(tenders))
                 value_ratio == IF RLt(Zero, overall_mean)
                                THEN RDiv(avg_value, overall_mean)
                                ELSE One
                 win_frequency == Frac(Len(won_tenders), Len(companies))
             IN  RMin(RAdd(RMul(RSub(value_ratio, One), <<1, 2>>),
                           RMul(win_frequency, <<2, 1>>)),
                      One)

\* faulty variant: the value ratio is 0 when the mean over all tenders is
\* not positive
check_tender_patterns_zero_ratio(company_id) ==
    LET won_tenders == WonRows(company_id)
        tender_ids == {r.target_id : r \in Range(won_tenders)}
        tender_values == SelectSeq(tenders, LAMBDA t : t.tender_id \in tender_ids)
    IN  IF Len(won_tenders) = 0 THEN Zero
        ELSE IF Len(tender_values) = 0 THEN Zero
        ELSE LET avg_value == Frac(SumValues(tender_values), Len(tender_values))
                 overall_mean == Frac(SumValues(tenders), Len(tenders))
                 value_ratio == IF RLt(Zero, overall_mean)
                                THEN RDiv(avg_value, overall_mean)
                                ELSE Zero
                 win_frequency == Frac(Len(won_tenders), Len(tenders))
             IN  RMin(RAdd(RMul(RSub(value_ratio, One), <<1, 2>>),
                           RMul(win_frequency, <<2, 1>>)),
                      One)

check_tender_patterns(company_id) ==
    LET won_tenders == WonRows(company_id)
        tender_ids == {r.target_id : r \in Range(won_tenders)}
        tender_values == SelectSeq(tenders, LAMBDA t : t.tender_id \in tender_ids)
    IN  IF Len(won_tenders) = 0 THEN Zero
        ELSE IF Len(tender_values) = 0 THEN Zero
        ELSE LET avg_value == Frac(SumValues(tender_values), Len(tender_values))
                 overall_mean == Frac(SumValues(tenders), Len(tenders))
                 value_ratio == IF RLt(Zero, overall_mean)
                                THEN RDiv(avg_value, overall_mean)
                                ELSE One
                 win_frequency == Frac(Len(won_tenders), Len(tenders))
             IN  RMin(RAdd(RMul(RSub(value_ratio, One), <<1, 2>>),
                           RMul(win_frequency, <<2, 1>>)),
                      One)

(***************************************************************************)
(* RiskScoringEngine._calculate_centrality                                 *)
(***************************************************************************)
\* faulty variant: the degree is divided by the number of nodes
calculate_centrality_by_nodes(entity_id) ==
    IF entity_id \notin graph.nodes THEN Zero
    ELSE Frac(Degree(graph, entity_id), Cardinality(graph.nodes))

calculate_centrality(entity_id) ==
    IF entity_id \notin graph.nodes THEN Zero
    ELSE LET degree == Degree(graph, entity_id)
             max_degree == MaxOf({Degree(graph, n) : n \in graph.nodes})
         IN  IF max_degree > 0 THEN Frac(degree, max_degree) ELSE Zero

(***************************************************************************)
(* RiskScoringEngine._check_shell_indicators (called only for an id that   *)
(* has a row in the companies table)                                       *)
(***************************************************************************)
CompanyOf(company_id) ==
    CHOOSE c \in Range(companies) : c.company_id = company_id

\* faulty variant: the company itself is not excluded
SameAddress_with_self(company_id) ==
    SelectSeq(companies, LAMBDA c : c.address = CompanyOf(company_id).address)

SameAddress(company_id) ==
    SelectSeq(companies, LAMBDA c :
        c.address = CompanyOf(company_id).address /\ c.company_id # company_id)

SameYear(company_id) ==
    SelectSeq(companies, LAMBDA c :
        c.registration_year = CompanyOf(company_id).registration_year
        /\ c.company_id # company_id)

check_shell_indicators(company_id) ==
    LET address_score == RMin(Frac(Len(SameAddress(company_id)), 5), One)
        year_score == RMin(Frac(Len(SameYear(company_id)), 10), <<1, 2>>)
    IN  RAdd(address_score, year_score)

(***************************************************************************)
(* RiskScoringEngine._calculate_confidence                                 *)
(***************************************************************************)
\* faulty variant: the confidence is not capped at 1.0
calculate_confidence_uncapped(entity_id) ==
    IF entity_id \notin graph.nodes THEN <<3, 10>>
    ELSE RAdd(<<1, 2>>, Frac(Degree(graph, entity_id), 20))

\* faulty variant: an id that is no node is treated as a node without edges
calculate_confidence_no_fallback(entity_id) ==
    RMin(RAdd(<<1, 2>>, Frac(Degree(graph, entity_id), 20)), One)

\* faulty variant: the confidence is higher once an earlier result has been
\* kept
calculate_confidence_with_history(entity_id) ==
    IF entity_id \notin graph.nodes THEN <<3, 10>>
    ELSE RMin(RAdd(<<1, 2>>,
                   Frac(Degree(graph, entity_id)
                        + (IF memo.id = NoId THEN 0 ELSE 1), 20)), One)

\* faulty variant: the confidence grows by a tenth per connection
calculate_confidence_steep(entity_id) ==
    IF entity_id \notin graph.nodes THEN <<3, 10>>
    ELSE RMin(RAdd(<<1, 2>>, Frac(Degree(graph, entity_id), 10)), One)

calculate_confidence(entity_id) ==
    IF entity_id \notin graph.nodes THEN <<3, 10>>
    ELSE RMin(RAdd(<<1, 2>>, Frac(Degree(graph, entity_id), 20)), One)

(***************************************************************************)
(* RiskScoringEngine.get_risk_category                                     *)
(***************************************************************************)
\* faulty variant: the boundaries are exclusive
get_risk_category_exclusive(risk_score) ==
    IF RLt(<<7, 10>>, risk_score) THEN "High"
    ELSE IF RLt(<<4, 10>>, risk_score) THEN "Medium"
    ELSE "Low"

get_risk_category(risk_score) ==
    IF RLe(<<7, 10>>, risk_score) THEN "High"
    ELSE IF RLe(<<4, 10>>, risk_score) THEN "Medium"
    ELSE "Low"

(***************************************************************************)
(* RiskScoringEngine.calculate_company_risk_score.  The row lookup         *)
(* .iloc[0] raises IndexError for an id without a row in the companies     *)
(* table; otherwise the triple (risk_score, confidence, indicators) is     *)
(* returned; factors records the four local factor scores of the call.     *)
(***************************************************************************)
Indicator(name, severity) == [indicator |-> name, severity |-> severity]

InCompanies(company_id) == \E c \in Range(companies) : c.company_id = company_id

\* faulty variant: a factor at its threshold is reported
SharedDirectorIndicators_inclusive(s) ==
    IF RLe(<<3, 10>>, s)
    THEN <<Indicator("Shared Directors",
                     IF RLe(<<6, 10>>, s) THEN "High" ELSE "Medium")>>
    ELSE <<>>

SharedDirectorIndicators(s) ==
    IF RLt(<<3, 10>>, s)
    THEN <<Indicator("Shared Directors",
                     IF RLt(<<6, 10>>, s) THEN "High" ELSE "Medium")>>
    ELSE <<>>

WinPatternIndicators(s) ==
    IF RLt(<<4, 10>>, s)
    THEN <<Indicator("Suspicious Win Pattern",
                     IF RLt(<<7, 10>>, s) THEN "High" ELSE "Medium")>>
    ELSE <<>>

CentralityIndicators(s) ==
    IF RLt(<<1, 2>>, s) THEN <<Indicator("High Network Centrality", "Medium")>>
    ELSE <<>>

ShellIndicators(s) ==
    IF RLt(<<1, 2>>, s) THEN <<Indicator("Shell Company Indicators", "High")>>
    ELSE <<>>

AggregateScore(sd, wp, ce, sh) ==
    RMin(RAdd(RAdd(RAdd(RMul(sd, <<25, 100>>), RMul(wp, <<30, 100>>)),
                   RMul(ce, <<20, 100>>)),
              RMul(sh, <<25, 100>>)),
         One)

NoFactors ==
    [shared_director_score |-> Zero, win_pattern_score |-> Zero,
     centrality_score |-> Zero, shell_score |-> Zero]

calculate_company_risk_score(company_id) ==
    IF ~InCompanies(company_id)
    THEN [status |-> "IndexError", risk_score |-> Zero, confidence |-> Zero,
          indicators |-> <<>>, factors |-> NoFactors]
    ELSE LET shared_director_score == check_shared_directors(company_id)
             win_pattern_score == check_tender_patterns(company_id)
             centrality_score == calculate_centrality(company_id)
             shell_score == check_shell_indicators(company_id)
         IN  [status |-> "ok",
              factors |-> [shared_director_score |-> shared_director_score,
                           win_pattern_score |-> win_pattern_score,
                           centrality_score |-> centrality_score,
                           shell_score |-> shell_score],
              risk_score |-> AggregateScore(shared_director_score,
                    win_pattern_score, centrality_score, shell_score),
              confidence |-> calculate_confidence(company_id),
              indicators |-> SharedDirectorIndicators(shared_director_score)
                    \o WinPatternIndicators(win_pattern_score)
                    \o CentralityIndicators(centrality_score)
                    \o ShellIndicators(shell_score)]

(***************************************************************************)
(* RiskScoringEngine.calculate_all_risk_scores: one record per row of the  *)
(* companies table, in table order.                                        *)
(***************************************************************************)
ScoreRecord(company_id) ==
    LET t == calculate_company_risk_score(company_id)
    IN  [company_id |-> company_id,
         risk_score |-> t.risk_score,
         confidence_score |-> t.confidence,
         risk_category |-> get_risk_category(t.risk_score),
         indicator_count |-> Len(t.indicators)]

\* faulty variant: the records come in reverse table order
calculate_all_risk_scores_reversed ==
    [i \in 1..Len(companies) |->
        ScoreRecord(companies[Len(companies) + 1 - i].company_id)]

calculate_all_risk_scores ==
    [i \in 1..Len(companies) |-> ScoreRecord(companies[i].company_id)]

(***************************************************************************)
(* RiskScoringEngine.detect_fraud_clusters on the partition that           *)
(* community_louvain.best_partition returned (a map from every node of the *)
(* graph to a community id).  The fraud_label lookup .iloc[0] raises       *)
(* IndexError for a COMP_ member without a row in the companies table.     *)
(* The returned list of member lists is modelled as the set of member      *)
(* sets.                                                                   *)
(***************************************************************************)
Communities(partition) ==
    {{n \in DOMAIN partition : partition[n] = k} :
        k \in {partition[n] : n \in DOMAIN partition}}

\* faulty variant: one company of a community of more than three is left out
CompanyMembers_but_one(members) ==
    LET cm == {m \in members : m[1] = "COMP"}
    IN  IF Cardinality(cm) > 3 THEN cm \ {CHOOSE m \in cm : TRUE} ELSE cm

CompanyMembers(members) == {m \in members : m[1] = "COMP"}

FraudCount(company_members) ==
    Cardinality({m \in company_members : CompanyOf(m).fraud_label = 1})

Considered(partition) ==
    {cm \in {CompanyMembers(members) : members \in Communities(partition)} :
        Cardinality(cm) >= 3}

\* faulty variant: a concentration of exactly one half is accepted
IsFraudCluster_inclusive(company_members) ==
    RLe(<<1, 2>>, Frac(FraudCount(company_members), Cardinality(company_members)))

IsFraudCluster(company_members) ==
    \* fraud_count / len(company_members) > 0.5
    RLt(<<1, 2>>, Frac(FraudCount(company_members), Cardinality(company_members)))

detect_fraud_clusters(partition) ==
    IF \E cm \in Considered(partition) : \E m \in cm : ~InCompanies(m)
    THEN [status |-> "IndexError", clusters |-> {}]
    ELSE [status |-> "ok",
          clusters |-> {cm \in Considered(partition) : IsFraudCluster(cm)}]

(***************************************************************************)
(* Snapshots the engine is constructed from.  Each family varies one part  *)
(* of the input tables.                                                    *)
(***************************************************************************)
Snapshot(cs, ds, ts, rs) ==
    [companies |-> cs, directors |-> ds, tenders |-> ts, relationships |-> rs]

PlainCompanies(n) == [i \in 1..n |-> CompanyRow(i, i, 1995 + i, 0)]

\* n companies (none: the graph is empty); the first sa share one address, the last sy one registration year
ShellSnapshots ==
    {Snapshot([i \in 1..n |->
                  CompanyRow(i, IF i <= sa THEN 0 ELSE i,
                             IF i > n - sy THEN 1995 ELSE 1995 + i, 0)],
              <<>>, <<>>, <<>>) :
        <<n, sa, sy>> \in {t \in (0..MaxCompanies) \X (0..MaxCompanies)
                                 \X (0..MaxCompanies) : t[2] <= t[1] /\ t[3] <= t[1]}}

\* one director of the first k of n companies; one company with k directors
StarSnapshots ==
    {Snapshot(PlainCompanies(n), <<Dir(1)>>, <<>>,
              [i \in 1..k |-> Rel(Dir(1), Comp(i), "DIRECTOR_OF")]) :
        <<n, k>> \in {t \in (1..MaxFanout + 1) \X (0..MaxFanout + 1) : t[2] <= t[1]}}
    \cup
    {Snapshot(PlainCompanies(2), [i \in 1..k |-> Dir(i)], <<>>,
              [i \in 1..k |-> Rel(Dir(i), Comp(1), "DIRECTOR_OF")]) :
        k \in 0..MaxFanout}

RECURSIVE Pick(_, _, _)
Pick(rows, S, i) ==
    IF i > Len(rows) THEN <<>>
    ELSE (IF i \in S THEN <<rows[i]>> ELSE <<>>) \o Pick(rows, S, i + 1)

\* two directors and three companies: any choice among the six DIRECTOR_OF
\* rows and a duplicate of one of them
DirectorRows ==
    <<Rel(Dir(1), Comp(1), "DIRECTOR_OF"), Rel(Dir(1), Comp(2), "DIRECTOR_OF"),
      Rel(Dir(1), Comp(3), "DIRECTOR_OF"), Rel(Dir(2), Comp(1), "DIRECTOR_OF"),
      Rel(Dir(2), Comp(2), "DIRECTOR_OF"), Rel(Dir(2), Comp(3), "DIRECTOR_OF"),
      Rel(Dir(1), Comp(2), "DIRECTOR_OF")>>

DirectorSnapshots ==
    {Snapshot(PlainCompanies(3), <<Dir(1), Dir(2)>>, <<TenderRow(1, 10)>>,
              Pick(DirectorRows, S, 1)) : S \in SUBSET (1..Len(DirectorRows))}

\* T tenders, the first nlo of value vlo and the others of value 100; company 1
\* won the first w1 (one of them recorded twice when dup), company 2 bid for
\* the first b and won none, company 3 has no relationship
TenderSnapshots ==
    {Snapshot(PlainCompanies(3), <<>>,
              [i \in 1..p.T |-> TenderRow(i, IF i <= p.nlo THEN p.vlo ELSE 100)],
              [i \in 1..p.w1 |-> Rel(Comp(1), Tend(i), "WON")]
              \o (IF p.dup THEN <<Rel(Comp(1), Tend(1), "WON")>> ELSE <<>>)
              \o [i \in 1..p.b |-> Rel(Comp(2), Tend(i), "BIDDED_FOR")]) :
        p \in {q \in [T : 0..MaxTenders, nlo : 0..MaxLow, vlo : {0, 1},
                      w1 : 0..MaxWins, b : 0..MaxBids, dup : BOOLEAN] :
                 /\ q.nlo <= q.T /\ q.w1 <= q.T /\ q.b <= q.T
                 /\ (q.dup => q.w1 > 0)
                 /\ (q.nlo = 0 => q.vlo = 0)}}

\* a small network with every relationship type, a WON row for a tender that
\* is in no table, a department and a company that is in no table
MixedRows ==
    <<Rel(Dir(1), Comp(1), "DIRECTOR_OF"), Rel(Dir(1), Comp(2), "DIRECTOR_OF"),
      Rel(Comp(1), Tend(1), "BIDDED_FOR"), Rel(Comp(1), Tend(1), "WON"),
      Rel(Comp(2), Tend(2), "WON"), Rel(Comp(1), Tend(3), "WON"),
      Rel(Tend(1), Dept(1), "ISSUED_BY"), Rel(Dir(1), Comp(3), "DIRECTOR_OF")>>

MixedSnapshots ==
    {Snapshot(PlainCompanies(2), <<Dir(1)>>,
              <<TenderRow(1, v[1]), TenderRow(2, v[2])>>,
              Pick(MixedRows, S, 1)) :
        S \in SUBSET (1..Len(MixedRows)), v \in {<<0, 10>>}}

\* n companies, the first nf of them fraud-labelled, with one director of the
\* first k of them and, when ghost, of a company that is in no table; four
\* such companies with three directors in a chain
ChainRows ==
    <<Rel(Dir(1), Comp(1), "DIRECTOR_OF"), Rel(Dir(1), Comp(2), "DIRECTOR_OF"),
      Rel(Dir(1), Comp(4), "DIRECTOR_OF"), Rel(Dir(2), Comp(3), "DIRECTOR_OF"),
      Rel(Dir(2), Comp(4), "DIRECTOR_OF"), Rel(Dir(3), Comp(3), "DIRECTOR_OF")>>

LabelledCompanies(n, nf) ==
    [i \in 1..n |-> CompanyRow(i, i, 1995 + i, IF i <= nf THEN 1 ELSE 0)]

ClusterSnapshots ==
    {Snapshot(LabelledCompanies(p.n, p.nf), <<Dir(1)>>, <<>>,
              [i \in 1..p.k |-> Rel(Dir(1), Comp(i), "DIRECTOR_OF")]
              \o (IF p.ghost THEN <<Rel(Dir(1), Comp(p.n + 1), "DIRECTOR_OF")>>
                  ELSE <<>>)) :
        p \in {q \in [n : 3..MaxClusterCompanies, nf : 0..MaxClusterCompanies,
                      k : 0..MaxClusterCompanies, ghost : BOOLEAN] :
                 q.nf <= q.n /\ q.k <= q.n}}
    \cup
    {Snapshot(LabelledCompanies(4, nf), <<Dir(1), Dir(2), Dir(3)>>, <<>>, ChainRows) :
        nf \in 0..4}

\* six companies, the first nf of them fraud-labelled; one director of the
\* first three, and the fifth recorded as a director of the fourth and sixth
TwoStarSnapshots ==
    {Snapshot(LabelledCompanies(6, nf), <<Dir(1)>>, <<>>,
              [i \in 1..3 |-> Rel(Dir(1), Comp(i), "DIRECTOR_OF")]
              \o <<Rel(Comp(5), Comp(4), "DIRECTOR_OF"),
                   Rel(Comp(5), Comp(6), "DIRECTOR_OF")>>) :
        nf \in {0, 3, 5, 6}}

\* one director of the first k companies, k at and just below the size at
\* which get_network_graph stops expanding, and the k-th company recorded as
\* a director of one more company
HubSnapshots ==
    {Snapshot(PlainCompanies(k + 1), <<Dir(1)>>, <<>>,
              [i \in 1..k |-> Rel(Dir(1), Comp(i), "DIRECTOR_OF")]
              \o <<Rel(Comp(k), Comp(k + 1), "DIRECTOR_OF")>>) :
        k \in {GraphLimit - 1, GraphLimit}}

\* two companies, one recorded as a director of the other
OwnershipSnapshots ==
    {Snapshot(PlainCompanies(2), <<>>, <<>>,
              <<Rel(Comp(1), Comp(2), "DIRECTOR_OF")>>)}

\* an empty tenders table, with WON and BIDDED_FOR rows left over for a
\* tender that is no longer in it
OrphanWinSnapshots ==
    {Snapshot(PlainCompanies(2), <<>>, <<>>,
              Pick(<<Rel(Comp(1), Tend(1), "WON"), Rel(Comp(2), Tend(1), "BIDDED_FOR"),
                     Rel(Comp(1), Tend(2), "WON")>>, S, 1)) :
        S \in SUBSET (1..3) \ {{}}}

Snapshots ==
    ShellSnapshots \cup StarSnapshots \cup DirectorSnapshots
    \cup TenderSnapshots \cup MixedSnapshots \cup ClusterSnapshots
    \cup OwnershipSnapshots \cup OrphanWinSnapshots \cup TwoStarSnapshots
    \cup HubSnapshots

(***************************************************************************)
(* The outcome of the last call on the engine.                             *)
(***************************************************************************)
NoRet ==
    [op |-> "none", arg_id |-> NoId, arg_score |-> Zero, status |-> "none",
     factors |-> NoFactors, risk_score |-> Zero, confidence |-> Zero,
     indicators |-> <<>>, category |-> "none", rows |-> <<>>, clusters |-> {},
     engine_called |-> FALSE, arg_depth |-> 0, nodes |-> {}, edges |-> {},
     rounds |-> 0, branch |-> "none", mode |-> "none", queried |-> FALSE]

\* no result has been kept
NoMemo ==
    [id |-> NoId, tables |-> Snapshot(<<>>, <<>>, <<>>, <<>>),
     risk_score |-> Zero, confidence |-> Zero, indicators |-> <<>>]

\* The startup event runs load_data.  The initial state is the one in which
\* load_data has read the tables of one snapshot into data_cache and
\* constructed the engine from them (api.py lines 45-52); StoreRiskScores is
\* the rest of load_data.  ret.op = "load_data" while load_data is running: no
\* handler is served before it returns.  The departments table is read by no
\* operation modelled here and is left out.
Loading == [NoRet EXCEPT !.op = "load_data"]

InitFrom(S) ==
    \E s \in S :
        /\ companies = s.companies
        /\ directors = s.directors
        /\ tenders = s.tenders
        /\ relationships = s.relationships
        /\ graph = build_networkx_graph(s.companies, s.directors, s.tenders,
                                        s.relationships)
        /\ data_cache = [companies |-> s.companies, directors |-> s.directors,
                         tenders |-> s.tenders, relationships |-> s.relationships,
                         risk_scores |-> <<>>]
        /\ memo = NoMemo
        /\ ret = Loading

\* src/backend/api.py has no Neo4j connector
NoConnector == [created |-> FALSE, driver |-> FALSE, connected |-> FALSE]

\* the services do not run the dataset generator
NoGenerator == [pc |-> "none", tenders |-> <<>>, relationships |-> <<>>]

Init == InitFrom(Snapshots) /\ neo4j_connector = NoConnector /\ generator = NoGenerator

Engine == <<companies, directors, tenders, relationships, graph>>

Frame ==
    <<companies, directors, tenders, relationships, graph, data_cache,
      neo4j_connector, generator, memo>>

\* ret holds the value the last call returned until its caller drops it
\* (Return); a caller makes its next call after that.  A caller of
\* detect_fraud_clusters may also call it a second time while it still holds
\* the first result.
Idle == ret.op = "none"

\* ids a caller may pass: the companies of the engine's table and of the
\* table in data_cache (the listing a caller sees), the COMP_ nodes of the
\* graph, a company id that is in no table and no relationship, a director
CallerIds ==
    {c.company_id : c \in Range(companies) \cup Range(data_cache.companies)}
    \cup {Comp(0), Dir(1)}
    \cup {n \in graph.nodes : n[1] = "COMP"}

\* load_data, after the engine is constructed: the batch scores are computed
\* and stored (api.py lines 55-57)
StoreRiskScores ==
    /\ ret.op = "load_data"
    /\ data_cache' = [data_cache EXCEPT !.risk_scores = calculate_all_risk_scores]
    /\ ret' = NoRet
    /\ UNCHANGED <<Engine, neo4j_connector, generator, memo>>

\* faulty variant: scoring an id adds it to the graph as a node
ScoreCompany_adds_node(company_id) ==
    LET t == calculate_company_risk_score(company_id)
    IN  /\ Idle
        /\ ret' = [NoRet EXCEPT !.op = "score", !.arg_id = company_id,
                        !.status = t.status, !.factors = t.factors,
                        !.risk_score = t.risk_score,
                        !.confidence = t.confidence,
                        !.indicators = t.indicators]
        /\ graph' = [graph EXCEPT !.nodes = @ \cup {company_id}]
        /\ UNCHANGED <<companies, directors, tenders, relationships,
                       data_cache, neo4j_connector, generator, memo>>

ScoreCompany(company_id) ==
    LET t == calculate_company_risk_score(company_id)
    IN  /\ Idle
        /\ ret' = [NoRet EXCEPT !.op = "score", !.arg_id = company_id,
                        !.status = t.status, !.factors = t.factors,
                        !.risk_score = t.risk_score,
                        !.confidence = t.confidence,
                        !.indicators = t.indicators]
        /\ UNCHANGED Frame

\* a direct call of RiskScoringEngine._calculate_confidence
Confidence(entity_id) ==
    /\ Idle
    /\ ret' = [NoRet EXCEPT !.op = "confidence", !.arg_id = entity_id,
                    !.status = "ok",
                    !.confidence = calculate_confidence(entity_id)]
    /\ UNCHANGED Frame

\* a direct call of RiskScoringEngine._calculate_centrality
Centrality(entity_id) ==
    /\ Idle
    /\ ret' = [NoRet EXCEPT !.op = "centrality", !.arg_id = entity_id,
                    !.status = "ok",
                    !.factors = [NoFactors EXCEPT !.centrality_score =
                                    calculate_centrality(entity_id)]]
    /\ UNCHANGED Frame

\* scores a caller may pass to get_risk_category
ScoreInputs == {Frac(n, 20) : n \in {-2, 7, 8, 13, 14, 22}}

Categorize(risk_score) ==
    /\ Idle
    /\ ret' = [NoRet EXCEPT !.op = "category", !.arg_score = risk_score,
                    !.status = "ok", !.category = get_risk_category(risk_score)]
    /\ UNCHANGED Frame

(***************************************************************************)
(* src/backend/api.py: GET /api/company/{company_id} and                   *)
(* GET /api/investigation/summary/{entity_id}.  status is the HTTP status  *)
(* of the answer, or the exception that leaves the handler;                *)
(* engine_called says whether the handler got as far as calling            *)
(* risk_engine.calculate_company_risk_score.  The lists connected_entities,*)
(* tender_history and key_findings of the answers are left out.            *)
(***************************************************************************)
InTable(table, company_id) == \E c \in Range(table) : c.company_id = company_id

Answer(status, engine_called, t) ==
    [status |-> status, engine_called |-> engine_called,
     risk_score |-> t.risk_score, indicators |-> t.indicators,
     category |-> IF status = "200" THEN get_risk_category(t.risk_score)
                  ELSE "none"]

NoTriple == [risk_score |-> Zero, indicators |-> <<>>]

\* faulty variant: the handler does not look the id up before it calls the
\* engine
get_company_detail_unchecked(company_id) ==
    LET t == calculate_company_risk_score(company_id)
    IN  IF t.status # "ok" THEN Answer(t.status, TRUE, NoTriple)
        ELSE Answer("200", TRUE, t)

get_company_detail(company_id) ==
    IF ~InTable(data_cache.companies, company_id)
    THEN Answer("404", FALSE, NoTriple)
    ELSE LET t == calculate_company_risk_score(company_id)
         IN  IF t.status # "ok" THEN Answer(t.status, TRUE, NoTriple)
             ELSE Answer("200", TRUE, t)

\* the loop over the connected entities reads risk_scores, a name that is
\* bound neither in the handler nor in the module: NameError at the first
\* connected id that starts with COMP_
ConnectedIds(entity_id) ==
    {r.target_id : r \in {x \in Range(data_cache.relationships) :
                             x.source_id = entity_id}}
    \cup {r.source_id : r \in {x \in Range(data_cache.relationships) :
                                  x.target_id = entity_id /\ x.source_id # entity_id}}

generate_investigation_summary(entity_id) ==
    IF entity_id[1] # "COMP" THEN Answer("400", FALSE, NoTriple)
    ELSE IF ~InTable(data_cache.companies, entity_id)
    THEN Answer("404", FALSE, NoTriple)
    ELSE LET t == calculate_company_risk_score(entity_id)
         IN  IF t.status # "ok" THEN Answer(t.status, TRUE, NoTriple)
             ELSE IF \E other_id \in ConnectedIds(entity_id) : other_id[1] = "COMP"
             THEN Answer("NameError", TRUE, NoTriple)
             ELSE Answer("200", TRUE, t)

Handled(op, entity_id, a) ==
    /\ Idle
    /\ ret' = [NoRet EXCEPT !.op = op, !.arg_id = entity_id,
                    !.status = a.status, !.engine_called = a.engine_called,
                    !.risk_score = a.risk_score, !.indicators = a.indicators,
                    !.category = a.category]
    /\ UNCHANGED Frame

GetCompanyDetail(company_id) ==
    Handled("detail", company_id, get_company_detail(company_id))

InvestigationSummary(entity_id) ==
    Handled("summary", entity_id, generate_investigation_summary(entity_id))

(***************************************************************************)
(* src/backend/api.py: GET /api/network/graph.  entity_id is NoId when the *)
(* request names no entity.  The answer's node list is modelled as the set *)
(* of its nodes (id, risk score, category; the label is left out) and its  *)
(* edge list as the set of its edges: the order in which the set           *)
(* nodes_to_include is iterated, and with it the order and the repetitions *)
(* of the edges, are left out.  rounds is the number of rounds of the      *)
(* expansion loop that ran.                                                *)
(***************************************************************************)
IsCompanyId(id) == id[1] = "COMP"

RECURSIVE ExpandRounds(_, _, _, _)
ExpandRounds(nodes_to_include, edges, left, rounds) ==
    IF left <= 0
    THEN [nodes_to_include |-> nodes_to_include, edges |-> edges, rounds |-> rounds]
    ELSE LET connected == {r \in Range(data_cache.relationships) :
                              r.source_id \in nodes_to_include
                              \/ r.target_id \in nodes_to_include}
             new_nodes == {r.source_id : r \in {x \in connected : IsCompanyId(x.source_id)}}
                          \cup {r.target_id : r \in {x \in connected : IsCompanyId(x.target_id)}}
             grown == nodes_to_include \cup new_nodes
         IN  IF Cardinality(grown) > GraphLimit
             THEN [nodes_to_include |-> grown, edges |-> edges \cup connected,
                   rounds |-> rounds + 1]
             ELSE ExpandRounds(grown, edges \cup connected, left - 1, rounds + 1)

HighRisk ==
    LET high == SelectSeq(data_cache.risk_scores, LAMBDA r : r.risk_category = "High")
    IN  SubSeq(high, 1, IF Len(high) < HighRiskLimit THEN Len(high) ELSE HighRiskLimit)

NetworkNode(node_id) ==
    LET risk_data == SelectSeq(data_cache.risk_scores, LAMBDA r : r.company_id = node_id)
    IN  IF risk_data # <<>>
        THEN [id |-> node_id, risk_score |-> risk_data[1].risk_score,
              risk_category |-> risk_data[1].risk_category]
        ELSE [id |-> node_id, risk_score |-> Zero, risk_category |-> "Low"]

\* faulty variant: every collected row is returned as an edge
NetworkEdges_unfiltered(edges, nodes_to_include) ==
    edges

NetworkEdges(edges, nodes_to_include) ==
    {e \in edges :
        /\ IsCompanyId(e.source_id) /\ IsCompanyId(e.target_id)
        /\ e.source_id \in nodes_to_include /\ e.target_id \in nodes_to_include}

get_network_graph(entity_id, depth) ==
    LET x == IF entity_id # NoId
             THEN ExpandRounds({entity_id}, {}, depth, 0)
             ELSE LET ids == {r.company_id : r \in Range(HighRisk)}
                  IN  [nodes_to_include |-> ids,
                       edges |-> {r \in Range(data_cache.relationships) :
                                     r.source_id \in ids /\ r.target_id \in ids},
                       rounds |-> 0]
         nodes_to_include ==
            IF entity_id # NoId THEN {n \in x.nodes_to_include : IsCompanyId(n)}
            ELSE x.nodes_to_include
    IN  [nodes |-> {NetworkNode(n) : n \in {m \in nodes_to_include : IsCompanyId(m)}},
         edges |-> NetworkEdges(x.edges, nodes_to_include),
         rounds |-> x.rounds]

GetNetworkGraph(entity_id, depth) ==
    LET g == get_network_graph(entity_id, depth)
    IN  /\ Idle
        /\ ret' = [NoRet EXCEPT !.op = "graph", !.arg_id = entity_id,
                        !.arg_depth = depth, !.status = "200",
                        !.nodes = g.nodes, !.edges = g.edges, !.rounds = g.rounds]
        /\ UNCHANGED Frame

ScoreAll ==
    /\ Idle
    /\ ret' = [NoRet EXCEPT !.op = "score_all", !.status = "ok",
                    !.rows = calculate_all_risk_scores]
    /\ UNCHANGED Frame

\* community_louvain.best_partition(self.graph) is called without a
\* random_state: the order in which its passes visit the nodes, and the
\* choice between equally good moves, are drawn from the global random state
\* and differ from call to call.  Every result has three properties: a node
\* without edges is a community of its own (it has no neighbour to join), a
\* node with edges shares its community with at least one neighbour (joining
\* one always gains modularity), and no community holds two nodes that no
\* path joins (merging across components loses modularity).  A call returns
\* any one split with these properties.  Splits[n] holds the splits of n
\* nodes, each as the sequence of the nodes' community numbers, numbered in
\* order of first appearance.
RECURSIVE SetToSeq(_)
SetToSeq(S) ==
    IF S = {} THEN <<>>
    ELSE LET x == CHOOSE x \in S : TRUE IN <<x>> \o SetToSeq(S \ {x})

Linked(G) == {n \in G.nodes : Degree(G, n) > 0}

Splits[n \in 0..MaxClusterNodes] ==
    IF n = 0 THEN {<<>>}
    ELSE UNION {{Append(s, k) : k \in 1..(MaxOf(Range(s) \cup {0}) + 1)} :
                   s \in Splits[n - 1]}

RECURSIVE Reach(_, _)
Reach(G, S) ==
    LET T == S \cup UNION {e \in DOMAIN G.edges : e \cap S # {}}
    IN  IF T = S THEN S ELSE Reach(G, T)

WithNeighbour(G, partition) ==
    \A n \in Linked(G) :
        \E e \in DOMAIN G.edges :
            n \in e /\ \A m \in e : partition[m] = partition[n]

Partitions ==
    LET order == SetToSeq(Linked(graph)) \o SetToSeq(graph.nodes \ Linked(graph))
        pos(n) == CHOOSE i \in DOMAIN order : order[i] = n
        linked == Cardinality(Linked(graph))
        component == [n \in graph.nodes |-> Reach(graph, {n})]
        all == {[n \in graph.nodes |-> IF pos(n) <= linked THEN s[pos(n)] ELSE pos(n)] :
                   s \in Splits[linked]}
    IN  {partition \in all :
            /\ WithNeighbour(graph, partition)
            /\ \A m, n \in graph.nodes :
                  partition[m] = partition[n] => m \in component[n]}

DetectClusters ==
    /\ (Idle \/ ret.op = "clusters")
    /\ Cardinality(graph.nodes) <= MaxClusterNodes
    /\ \E partition \in Partitions :
          LET r == detect_fraud_clusters(partition)
          IN  ret' = [NoRet EXCEPT !.op = "clusters", !.status = r.status,
                           !.clusters = r.clusters]
    /\ UNCHANGED Frame

Return ==
    /\ ret.op \notin {"none", "load_data"}
    /\ ret' = NoRet
    /\ UNCHANGED Frame

Next ==
    \/ StoreRiskScores
    \/ \E company_id \in CallerIds : ScoreCompany(company_id)
    \/ \E entity_id \in CallerIds : Confidence(entity_id)
    \/ \E entity_id \in CallerIds : Centrality(entity_id)
    \/ \E risk_score \in ScoreInputs : Categorize(risk_score)
    \/ ScoreAll
    \/ \E company_id \in CallerIds : GetCompanyDetail(company_id)
    \/ \E entity_id \in CallerIds : InvestigationSummary(entity_id)
    \/ \E entity_id \in CallerIds \cup {NoId}, depth \in 0..MaxDepth :
          GetNetworkGraph(entity_id, depth)
    \/ DetectClusters
    \/ Return

Spec == Init /\ [][Next]_vars

(***************************************************************************)
(* load_data called again on a running service (a reload).  The CSV files  *)
(* on disk hold one of a few snapshots that differ in one company's        *)
(* address or registration year, or in one more company, relationship or   *)
(* tender.  pd.read_csv raises for a file that is missing or cannot be     *)
(* parsed: the tables read before it are already stored in data_cache, and *)
(* load_data is left before the engine is replaced.  The files are read in *)
(* the order companies, directors, tenders, departments, relationships.    *)
(***************************************************************************)
CsvCompanies(a3, y3, n) ==
    [i \in 1..n |-> IF i = 3 THEN CompanyRow(3, a3, y3, 0)
                    ELSE CompanyRow(i, i, 1995 + i, 0)]

CsvRows(more) ==
    <<Rel(Dir(1), Comp(1), "DIRECTOR_OF"), Rel(Dir(1), Comp(2), "DIRECTOR_OF"),
      Rel(Comp(1), Tend(1), "WON")>>
    \o (IF more THEN <<Rel(Dir(1), Comp(3), "DIRECTOR_OF")>> ELSE <<>>)

\* address and registration year of COMP_3, number of companies, whether the
\* director has a third company, number of tenders
CsvSnapshots ==
    {Snapshot(CsvCompanies(p[1], p[2], p[3]), <<Dir(1)>>,
              [i \in 1..p[5] |-> TenderRow(i, 10)], CsvRows(p[4])) :
        p \in {<<3, 1998, 3, FALSE, 1>>, <<1, 1998, 3, FALSE, 1>>,
               <<9, 1998, 3, FALSE, 1>>, <<3, 1996, 3, FALSE, 1>>,
               <<3, 1998, 4, FALSE, 1>>, <<3, 1998, 3, TRUE, 1>>,
               <<3, 1998, 3, FALSE, 3>>}}

InitReload ==
    InitFrom(CsvSnapshots) /\ neo4j_connector = NoConnector /\ generator = NoGenerator

EngineTables == Snapshot(companies, directors, tenders, relationships)

\* files holds the tables on disk; read is the number of tables read before
\* pd.read_csv raises (4: every file is read and load_data goes on)
LoadData(files, read) ==
    /\ Idle
    /\ data_cache' =
          [companies |-> IF read >= 1 THEN files.companies ELSE data_cache.companies,
           directors |-> IF read >= 2 THEN files.directors ELSE data_cache.directors,
           tenders |-> IF read >= 3 THEN files.tenders ELSE data_cache.tenders,
           relationships |-> IF read >= 4 THEN files.relationships
                             ELSE data_cache.relationships,
           risk_scores |-> data_cache.risk_scores]
    /\ IF read = 4
       THEN /\ companies' = files.companies
            /\ directors' = files.directors
            /\ tenders' = files.tenders
            /\ relationships' = files.relationships
            /\ graph' = build_networkx_graph(files.companies, files.directors,
                                             files.tenders, files.relationships)
            /\ ret' = Loading
       ELSE /\ UNCHANGED Engine
            /\ ret' = [NoRet EXCEPT !.op = "load_failed", !.status = "Error"]
    /\ UNCHANGED <<neo4j_connector, generator, memo>>

\* the caller of calculate_company_risk_score keeps the triple it was given,
\* together with the tables the engine held
Remember ==
    /\ ret.op = "score" /\ ret.status = "ok"
    /\ memo' = [id |-> ret.arg_id, tables |-> EngineTables,
                risk_score |-> ret.risk_score, confidence |-> ret.confidence,
                indicators |-> ret.indicators]
    /\ UNCHANGED <<Engine, data_cache, neo4j_connector, generator, ret>>

NextReload ==
    \/ Next
    \/ \E files \in CsvSnapshots, read \in 0..4 : LoadData(files, read)
    \/ Remember

SpecReload == InitReload /\ [][NextReload]_vars

(***************************************************************************)
(* src/backend/api_neo4j.py: the service that starts with initialize_neo4j *)
(* and answers from Neo4j when `neo4j_connector and neo4j_connector.driver`*)
(* holds, from the tables of data_cache otherwise.  The database is        *)
(* outside the program: connect() either succeeds, or fails in             *)
(* GraphDatabase.driver (self.driver stays None), or fails in the test     *)
(* query, after self.driver was assigned (neo4j_connector.py lines 25-28). *)
(* A query made later through the driver either answers or raises.         *)
(***************************************************************************)
ConnectOutcomes ==
    {[created |-> TRUE, driver |-> TRUE, connected |-> TRUE],
     [created |-> TRUE, driver |-> FALSE, connected |-> FALSE],
     [created |-> TRUE, driver |-> TRUE, connected |-> FALSE]}

InitNeo4j ==
    InitFrom(CsvSnapshots) /\ neo4j_connector = NoConnector /\ generator = NoGenerator

\* both outcomes of connect() are followed by the same reads of the CSV files
\* and the same batch
initialize_neo4j(outcome) ==
    /\ ret.op = "load_data"
    /\ ~neo4j_connector.created
    /\ neo4j_connector' = outcome
    /\ data_cache' = [data_cache EXCEPT !.risk_scores = calculate_all_risk_scores]
    /\ ret' = NoRet
    /\ UNCHANGED <<Engine, generator, memo>>

\* `neo4j_connector and neo4j_connector.driver`
UseNeo4j == neo4j_connector.created /\ neo4j_connector.driver

Branch == IF UseNeo4j THEN "neo4j" ELSE "csv"

Served(r) ==
    /\ Idle
    /\ neo4j_connector.created
    /\ ret' = r
    /\ UNCHANGED Frame

root ==
    Served([NoRet EXCEPT !.op = "root", !.status = "200", !.branch = Branch,
                  !.mode = IF UseNeo4j THEN "Neo4j" ELSE "CSV (Fallback)"])

\* answers is whether the queries get_statistics and detect_fraud_clusters of
\* the connector answer
get_dashboard_stats(answers) ==
    IF UseNeo4j
    THEN Served([NoRet EXCEPT !.op = "stats", !.branch = "neo4j", !.queried = TRUE,
                       !.status = IF answers THEN "200" ELSE "Error"])
    ELSE /\ Cardinality(graph.nodes) <= MaxClusterNodes
         /\ \E partition \in Partitions :
               LET r == detect_fraud_clusters(partition)
               IN  Served([NoRet EXCEPT !.op = "stats", !.branch = "csv",
                                 !.status = IF r.status = "ok" THEN "200"
                                            ELSE r.status,
                                 !.clusters = r.clusters])

get_company_detail_neo4j(company_id, answers) ==
    LET a == get_company_detail(company_id)
        r == [NoRet EXCEPT !.op = "detail_neo4j", !.arg_id = company_id,
                    !.status = a.status, !.engine_called = a.engine_called,
                    !.risk_score = a.risk_score, !.indicators = a.indicators,
                    !.category = a.category]
    IN  IF a.status # "200" THEN Served(r)
        ELSE IF UseNeo4j
        THEN Served([r EXCEPT !.branch = "neo4j", !.queried = TRUE,
                           !.status = IF answers THEN "200" ELSE "Error",
                           !.category = IF answers THEN a.category ELSE "none"])
        ELSE Served([r EXCEPT !.branch = "csv"])

\* the company ids get_network_subgraph may answer with
SubgraphAnswers(entity_id) ==
    {{}, {entity_id} \cap {c.company_id : c \in Range(data_cache.companies)},
     {c.company_id : c \in Range(data_cache.companies)}}

\* edges are the rows of the relationships table between returned companies
NetworkEdges_neo4j(nodes_to_include) ==
    {e \in Range(data_cache.relationships) :
        /\ e.source_id \in nodes_to_include /\ e.target_id \in nodes_to_include
        /\ IsCompanyId(e.source_id) /\ IsCompanyId(e.target_id)}

get_network_graph_neo4j(entity_id, depth, answers) ==
    LET r == [NoRet EXCEPT !.op = "graph_neo4j", !.arg_id = entity_id,
                    !.arg_depth = depth]
        Built(nodes_to_include, rounds, branch) ==
            [r EXCEPT !.status = "200", !.branch = branch, !.rounds = rounds,
                      !.queried = (branch = "neo4j"),
                      !.nodes = {NetworkNode(n) :
                                    n \in {m \in nodes_to_include : IsCompanyId(m)}},
                      !.edges = NetworkEdges_neo4j(nodes_to_include)]
    IN  IF UseNeo4j /\ entity_id # NoId
        THEN IF answers
             THEN \E ids \in SubgraphAnswers(entity_id) : Served(Built(ids, 0, "neo4j"))
             ELSE Served([r EXCEPT !.status = "Error", !.branch = "neo4j",
                                !.queried = TRUE])
        ELSE IF entity_id # NoId
        THEN LET x == ExpandRounds({entity_id}, {}, depth, 0)
             IN  Served(Built({n \in x.nodes_to_include : IsCompanyId(n)},
                              x.rounds, "csv"))
        ELSE Served(Built({h.company_id : h \in Range(HighRisk)}, 0, "csv"))

get_fraud_clusters(answers) ==
    IF UseNeo4j
    THEN Served([NoRet EXCEPT !.op = "clusters_neo4j", !.branch = "neo4j",
                       !.queried = TRUE,
                       !.status = IF answers THEN "200" ELSE "Error"])
    ELSE /\ Cardinality(graph.nodes) <= MaxClusterNodes
         /\ \E partition \in Partitions :
               LET r == detect_fraud_clusters(partition)
               IN  Served([NoRet EXCEPT !.op = "clusters_neo4j", !.branch = "csv",
                                 !.status = IF r.status = "ok" THEN "200"
                                            ELSE r.status,
                                 !.clusters = r.clusters])

\* the handler catches a failing query and reports it
neo4j_status(answers) ==
    IF UseNeo4j
    THEN Served([NoRet EXCEPT !.op = "status", !.status = "200",
                       !.branch = "neo4j", !.queried = TRUE,
                       !.mode = IF answers THEN "connected" ELSE "error"])
    ELSE Served([NoRet EXCEPT !.op = "status", !.status = "200",
                       !.branch = "csv", !.mode = "disconnected"])

NextNeo4j ==
    \/ \E outcome \in ConnectOutcomes : initialize_neo4j(outcome)
    \/ root
    \/ \E answers \in BOOLEAN : get_dashboard_stats(answers)
    \/ \E company_id \in CallerIds, answers \in BOOLEAN :
          get_company_detail_neo4j(company_id, answers)
    \/ \E entity_id \in CallerIds \cup {NoId}, depth \in 0..MaxDepth,
          answers \in BOOLEAN :
          get_network_graph_neo4j(entity_id, depth, answers)
    \/ \E answers \in BOOLEAN : get_fraud_clusters(answers)
    \/ \E answers \in BOOLEAN : neo4j_status(answers)
    \/ Return

SpecNeo4j == InitNeo4j /\ [][NextNeo4j]_vars

(***************************************************************************)
(* src/dataset_generator.py: ProcurementDataGenerator.generate, as far as  *)
(* it writes the tenders table and the BIDDED_FOR and WON rows.  The       *)
(* generator draws from Python's random module: every draw is a choice     *)
(* here.  The dataset is scaled down: MaxGenCompanies companies and        *)
(* MaxGenTenders tenders (500 and 150 in the source), one bidder per       *)
(* tender (3 to 7 draws), one collusive cluster (3 or 4) of two companies  *)
(* (7) that bids for one high-value tender (the 22 largest).  The          *)
(* contract values are left out: any tender can be the largest.  The rows  *)
(* of the other relationship types and _inject_high_contract_winners,      *)
(* which appends further WON rows, are left out.                           *)
(***************************************************************************)
MaxGenCompanies == 2
MaxGenTenders == 2

GenCompanyIds == {Comp(i) : i \in 0..(MaxGenCompanies - 1)}

GenBidderSets == {{c} : c \in GenCompanyIds}

GenClusterSets == {s \in SUBSET GenCompanyIds : Cardinality(s) = 2}

GenHighValueSets == {{Tend(i)} : i \in 0..(MaxGenTenders - 1)}

InitGenerator ==
    /\ InitFrom({Snapshot(<<>>, <<>>, <<>>, <<>>)})
    /\ neo4j_connector = NoConnector
    /\ generator = [pc |-> "generate_tenders", tenders |-> <<>>, relationships |-> <<>>]

\* one iteration of the loop: tender i gets a winning company drawn at random
generate_tenders(winning_company_id) ==
    LET i == Len(generator.tenders)
    IN  /\ generator.pc = "generate_tenders"
        /\ generator' =
              [generator EXCEPT
                  !.tenders = Append(@, [tender_id |-> Tend(i),
                                         winning_company_id |-> winning_company_id]),
                  !.pc = IF i + 1 = MaxGenTenders
                         THEN "create_company_tender_relationships" ELSE @]
        /\ UNCHANGED <<Engine, data_cache, neo4j_connector, memo, ret>>

GenWonRows == SelectSeq(generator.relationships, LAMBDA r : r.relationship_type = "WON")

\* one iteration of the loop: the tender after the last one that has a WON
\* row gets its bidders and a winner drawn anew
create_company_tender_relationships(bidding_companies, winning_company_id) ==
    LET tender_id == Tend(Len(GenWonRows))
    IN  /\ generator.pc = "create_company_tender_relationships"
        /\ generator' =
              [generator EXCEPT
                  !.relationships =
                      @ \o [k \in 1..Cardinality(bidding_companies) |->
                               Rel(SetToSeq(bidding_companies)[k], tender_id, "BIDDED_FOR")]
                        \o <<Rel(winning_company_id, tender_id, "WON")>>,
                  !.pc = IF Len(GenWonRows) + 1 = MaxGenTenders
                         THEN "_inject_collusive_cluster" ELSE @]
        /\ UNCHANGED <<Engine, data_cache, neo4j_connector, memo, ret>>

\* winner maps every high-value tender to the cluster company drawn for it
_inject_collusive_cluster(cluster_company_ids, high_value_tenders, winner) ==
    LET ts == SetToSeq(high_value_tenders)
        cs == SetToSeq(cluster_company_ids)
        RowsFor(tender_id) ==
            [k \in 1..Len(cs) |-> Rel(cs[k], tender_id, "BIDDED_FOR")]
            \o <<Rel(winner[tender_id], tender_id, "WON")>>
        RECURSIVE Rows(_)
        Rows(n) == IF n = 0 THEN <<>> ELSE Rows(n - 1) \o RowsFor(ts[n])
    IN  /\ generator.pc = "_inject_collusive_cluster"
        /\ generator' = [generator EXCEPT !.relationships = @ \o Rows(Len(ts)),
                                          !.pc = "done"]
        /\ UNCHANGED <<Engine, data_cache, neo4j_connector, memo, ret>>

NextGenerator ==
    \/ \E winning_company_id \in GenCompanyIds : generate_tenders(winning_company_id)
    \/ \E bidding_companies \in GenBidderSets, winning_company_id \in GenCompanyIds :
          create_company_tender_relationships(bidding_companies, winning_company_id)
    \/ \E cluster_company_ids \in GenClusterSets, high_value_tenders \in GenHighValueSets :
          \E winner \in [high_value_tenders -> cluster_company_ids] :
             _inject_collusive_cluster(cluster_company_ids, high_value_tenders, winner)

SpecGenerator == InitGenerator /\ [][NextGenerator]_vars

(***************************************************************************)
(* Claims                                                                  *)
(***************************************************************************)
InUnit(x) == RLe(Zero, x) /\ RLe(x, One)

Scored == ret.op = "score" /\ ret.status = "ok"

\* C1: every risk_score returned by calculate_company_risk_score, and every
\* risk_score of a record of calculate_all_risk_scores, lies in [0,1]; it is
\* never negative.
C1_RiskScoreInUnitInterval ==
    /\ Scored => InUnit(ret.risk_score)
    /\ ret.op = "score_all" => \A i \in DOMAIN ret.rows : InUnit(ret.rows[i].risk_score)

\* C2: every record of calculate_all_risk_scores has confidence_score in
\* [0.3, 1.0].
C2_ConfidenceInRange ==
    ret.op = "score_all" =>
        \A i \in DOMAIN ret.rows :
            /\ RLe(<<3, 10>>, ret.rows[i].confidence_score)
            /\ RLe(ret.rows[i].confidence_score, One)

\* a batch in which one record's confidence is capped at 1.0 and another's
\* is 0.5
C2_Witness ==
    /\ ret.op = "score_all"
    /\ \E i \in DOMAIN ret.rows : ret.rows[i].confidence_score = One
    /\ \E i \in DOMAIN ret.rows : ret.rows[i].confidence_score = <<1, 2>>
    /\ \E c \in Range(companies) : Degree(graph, c.company_id) > 10

\* C3: get_risk_category maps every score to exactly one category: High from
\* 0.7 upwards, Medium from 0.4 up to but not including 0.7, Low below 0.4;
\* a larger score never has a lower category.
CategoryRank(c) == CASE c = "Low" -> 1 [] c = "Medium" -> 2 [] c = "High" -> 3

CategoryOfScore(x) ==
    CHOOSE c \in {"Low", "Medium", "High"} :
        /\ c = "High" <=> 10 * x[1] >= 7 * x[2]
        /\ c = "Low" <=> 10 * x[1] < 4 * x[2]

C3_CategoryThresholds ==
    /\ ret.op = "category" =>
          /\ ret.category = CategoryOfScore(ret.arg_score)
          /\ \A x \in ScoreInputs :
                /\ RLe(x, ret.arg_score) =>
                      CategoryRank(get_risk_category(x)) <= CategoryRank(ret.category)
                /\ RLe(ret.arg_score, x) =>
                      CategoryRank(ret.category) <= CategoryRank(get_risk_category(x))
    /\ ret.op = "score_all" =>
          \A i \in DOMAIN ret.rows :
              ret.rows[i].risk_category = CategoryOfScore(ret.rows[i].risk_score)

\* the boundary score 0.7 is categorized High
C3_Witness ==
    ret.op = "category" /\ ret.arg_score = <<7, 10>> /\ ret.category = "High"

\* C4: for a company with no DIRECTOR_OF relationship the shared-directors
\* factor is exactly 0.0 and the call raises nothing, whatever other
\* relationships the snapshot holds.
HasDirector(company_id) ==
    \E i \in DOMAIN relationships :
        /\ relationships[i].relationship_type = "DIRECTOR_OF"
        /\ relationships[i].target_id = company_id

C4_NoDirectorsFactorZero ==
    (ret.op = "score" /\ InCompanies(ret.arg_id) /\ ~HasDirector(ret.arg_id)) =>
        ret.status = "ok" /\ ret.factors.shared_director_score = Zero

\* a company without directors is scored while it has won a tender and other
\* companies have directors
C4_Witness ==
    /\ Scored /\ ~HasDirector(ret.arg_id)
    /\ \E i \in DOMAIN relationships :
          /\ relationships[i].source_id = ret.arg_id
          /\ relationships[i].relationship_type = "WON"
    /\ \E i \in DOMAIN relationships : relationships[i].relationship_type = "DIRECTOR_OF"

\* C5 (as claimed): scoring a company that is not a node of the graph returns
\* normally with confidence exactly 0.3.
C5_ScoringAbsentGivesFallback ==
    (ret.op = "score" /\ ret.arg_id \notin graph.nodes) =>
        ret.status = "ok" /\ ret.confidence = <<3, 10>>

\* C5 (amended): _calculate_confidence returns exactly 0.3, and raises nothing,
\* for an id that is not a node of the graph; calculate_company_risk_score
\* raises IndexError for such an id and returns no confidence.
C5_ConfidenceFallback ==
    /\ (ret.op = "confidence" /\ ret.arg_id \notin graph.nodes) =>
          ret.status = "ok" /\ ret.confidence = <<3, 10>>
    /\ (ret.op = "score" /\ ret.arg_id \notin graph.nodes) =>
          ret.status = "IndexError"

C5_Witness ==
    ret.op = "confidence" /\ ret.arg_id \notin graph.nodes /\ ret.confidence = <<3, 10>>

\* C6: every cluster detect_fraud_clusters returns has at least 3 company
\* members and more than half of them fraud-labelled; a community with exactly
\* half of its companies fraud-labelled is not returned.
FraudLabelled(company_id) ==
    \E c \in Range(companies) : c.company_id = company_id /\ c.fraud_label = 1

C6_ClustersLargeAndConcentrated ==
    ret.op = "clusters" =>
        \A cluster \in ret.clusters :
            /\ Cardinality(cluster) >= 3
            /\ 2 * Cardinality({m \in cluster : FraudLabelled(m)}) > Cardinality(cluster)

\* a cluster is returned although four companies, two of them fraud-labelled,
\* can form a community
C6_Witness ==
    /\ ret.op = "clusters" /\ ret.status = "ok" /\ ret.clusters # {}
    /\ Len(companies) = 4
    /\ Cardinality({c \in Range(companies) : c.fraud_label = 1}) = 2

\* C7: on one snapshot, two consecutive calls of detect_fraud_clusters return
\* the same set of cluster membership sets.
C7_ClustersDeterministic ==
    [][(ret.op = "clusters" /\ ret'.op = "clusters") =>
          (ret'.status = ret.status /\ ret'.clusters = ret.clusters)]_vars

\* C8: the shared-directors factor of company c is min(n/10, 1.0), n being the
\* number of distinct ids other than c that are directed by a director of c;
\* for three companies sharing one director and nothing else it is 0.2, no
\* Shared Directors indicator is emitted and it adds 0.05 to the aggregate.
Directs(d, x) ==
    \E i \in DOMAIN relationships :
        relationships[i] = Rel(d, x, "DIRECTOR_OF")

SharingCompanies(c) ==
    {x \in {relationships[i].target_id : i \in DOMAIN relationships} :
        x # c /\ \E i \in DOMAIN relationships :
                    Directs(relationships[i].source_id, c)
                    /\ Directs(relationships[i].source_id, x)}

HasIndicator(name) == \E i \in DOMAIN ret.indicators : ret.indicators[i].indicator = name

ThreeShareOneDirector ==
    /\ Len(companies) = 3
    /\ relationships = [i \in 1..3 |-> Rel(Dir(1), Comp(i), "DIRECTOR_OF")]

C8_SharedDirectorsFactor ==
    Scored =>
        /\ ret.factors.shared_director_score =
              (IF 10 <= Cardinality(SharingCompanies(ret.arg_id)) THEN One
               ELSE Frac(Cardinality(SharingCompanies(ret.arg_id)), 10))
        /\ ThreeShareOneDirector =>
              /\ ret.factors.shared_director_score = <<1, 5>>
              /\ ~HasIndicator("Shared Directors")
              /\ ret.risk_score =
                    RAdd(<<1, 20>>,
                         RAdd(RMul(ret.factors.centrality_score, <<1, 5>>),
                              RMul(ret.factors.shell_score, <<1, 4>>)))

C8_Witness ==
    Scored /\ ThreeShareOneDirector /\ ret.factors.shared_director_score = <<1, 5>>

\* C9: for a company with no WON relationship, with or without BIDDED_FOR
\* relationships, the win-pattern factor is exactly 0.0 and no Suspicious Win
\* Pattern indicator is emitted.
HasRow(company_id, kind) ==
    \E i \in DOMAIN relationships :
        /\ relationships[i].source_id = company_id
        /\ relationships[i].relationship_type = kind

C9_NoWinsFactorZero ==
    (Scored /\ ~HasRow(ret.arg_id, "WON")) =>
        /\ ret.factors.win_pattern_score = Zero
        /\ ~HasIndicator("Suspicious Win Pattern")

\* a company that bid and did not win is scored
C9_Witness ==
    Scored /\ ~HasRow(ret.arg_id, "WON") /\ HasRow(ret.arg_id, "BIDDED_FOR")

\* C10: the shell-similarity factor of company c is min(a/5, 1.0) +
\* min(y/10, 0.5), a and y being the numbers of other companies with c's
\* address and with c's registration year; when five companies share one
\* address and no two share a year it is 0.8 for each of them, with a
\* High-severity Shell Company Indicators indicator.
Others(c, field) ==
    Cardinality({i \in DOMAIN companies :
        /\ companies[i].company_id # c
        /\ \E j \in DOMAIN companies :
              /\ companies[j].company_id = c
              /\ companies[i][field] = companies[j][field]})

FiveShareAddress ==
    /\ Len(companies) = 5
    /\ \A i, j \in DOMAIN companies :
          /\ companies[i].address = companies[j].address
          /\ i # j => companies[i].registration_year # companies[j].registration_year

C10_ShellFactor ==
    Scored =>
        /\ ret.factors.shell_score =
              RAdd(IF Others(ret.arg_id, "address") >= 5 THEN One
                   ELSE Frac(Others(ret.arg_id, "address"), 5),
                   IF Others(ret.arg_id, "registration_year") >= 5 THEN <<1, 2>>
                   ELSE Frac(Others(ret.arg_id, "registration_year"), 10))
        /\ FiveShareAddress =>
              /\ ret.factors.shell_score = <<4, 5>>
              /\ \E i \in DOMAIN ret.indicators :
                    ret.indicators[i] = Indicator("Shell Company Indicators", "High")

C10_Witness ==
    Scored /\ FiveShareAddress /\ ret.factors.shell_score = <<4, 5>>

\* C11: the aggregate score equals clamp(0.25*shared_directors +
\* 0.30*win_pattern + 0.20*centrality + 0.25*shell_similarity, 0, 1); the
\* weights sum to 1.0; the weighted sum is never below 0, and the clamp changes
\* it only when the shell-similarity factor is above 1.0.
Weights == <<Frac(25, 100), Frac(30, 100), Frac(20, 100), Frac(25, 100)>>

WeightedSum(f) ==
    RAdd(RAdd(RAdd(RMul(Weights[1], f.shared_director_score),
                   RMul(Weights[2], f.win_pattern_score)),
              RMul(Weights[3], f.centrality_score)),
         RMul(Weights[4], f.shell_score))

Clamp01(x) == IF RLt(x, Zero) THEN Zero ELSE IF RLt(One, x) THEN One ELSE x

C11_AggregateIsClampedSum ==
    /\ RAdd(RAdd(Weights[1], Weights[2]), RAdd(Weights[3], Weights[4])) = One
    /\ Scored =>
          /\ ret.risk_score = Clamp01(WeightedSum(ret.factors))
          /\ RLe(Zero, WeightedSum(ret.factors))
          /\ ret.risk_score # WeightedSum(ret.factors) =>
                RLt(One, ret.factors.shell_score)

\* C12 (as claimed): a single-entity score lookup for an id without a row in
\* the companies table never returns a triple: calculate_company_risk_score
\* raises, and both handlers answer 404 without calling the engine.
C12_LookupOfUnknownIdIs404 ==
    ~InCompanies(ret.arg_id) =>
        /\ ret.op = "score" => ret.status = "IndexError"
        /\ ret.op \in {"detail", "summary"} =>
              ret.status = "404" /\ ~ret.engine_called

\* C12 (amended): calculate_company_risk_score raises IndexError; the company
\* handler answers 404; the summary handler answers 400 when the id does not
\* start with COMP_ and 404 when it does; neither handler calls the engine
\* and no triple is returned.
C12_LookupOfUnknownIdFails ==
    ~InCompanies(ret.arg_id) =>
        /\ ret.op = "score" => ret.status = "IndexError"
        /\ ret.op = "detail" => ret.status = "404"
        /\ ret.op = "summary" =>
              ret.status = (IF ret.arg_id[1] = "COMP" THEN "404" ELSE "400")
        /\ ret.op \in {"detail", "summary"} => ~ret.engine_called
        /\ ret.op \in {"score", "detail", "summary"} =>
              ret.status \notin {"ok", "200"}

\* the company handler is asked for a COMP_ id that a relationship names and
\* the companies table does not hold
C12_Witness ==
    /\ ret.op = "detail" /\ ret.status = "404"
    /\ ret.arg_id \in graph.nodes /\ ~InCompanies(ret.arg_id)

\* C13: the engine is constructed only from a snapshot in which every
\* relationship row names, as source_id and as target_id, the id of a company,
\* director or tender row; the builder creates no node for an id of no row.
TableIds ==
    {companies[i].company_id : i \in DOMAIN companies}
    \cup {directors[i] : i \in DOMAIN directors}
    \cup {tenders[i].tender_id : i \in DOMAIN tenders}

C13_UnknownEndpointFailsBuild ==
    /\ \A i \in DOMAIN relationships :
          relationships[i].source_id \in TableIds
          /\ relationships[i].target_id \in TableIds
    /\ graph.nodes = TableIds

\* C14: calculate_all_risk_scores returns one record per row of the companies
\* table, in table order; a record's risk_score and confidence_score are those
\* calculate_company_risk_score returns for its company, its risk_category is
\* get_risk_category(risk_score), and its indicator_count is the number of
\* indicators returned for its company.
RecordMatches(record, company_id) ==
    LET t == calculate_company_risk_score(company_id)
    IN  /\ record.company_id = company_id
        /\ t.status = "ok"
        /\ record.risk_score = t.risk_score
        /\ record.confidence_score = t.confidence
        /\ record.risk_category = get_risk_category(t.risk_score)
        /\ record.indicator_count = Len(t.indicators)

C14_BatchMatchesSingleCalls ==
    ret.op = "score_all" =>
        /\ Len(ret.rows) = Len(companies)
        /\ \A i \in DOMAIN companies :
              RecordMatches(ret.rows[i], companies[i].company_id)

\* a batch over several companies whose records differ in score, in category
\* and in indicator count
C14_Witness ==
    /\ ret.op = "score_all" /\ Len(ret.rows) >= 3
    /\ \E i, j \in DOMAIN ret.rows :
          /\ ret.rows[i].risk_score # ret.rows[j].risk_score
          /\ ret.rows[i].risk_category # ret.rows[j].risk_category
          /\ ret.rows[i].indicator_count > ret.rows[j].indicator_count

\* C15: for a fixed snapshot the score triple of a company does not depend on
\* the calls made before: a call of calculate_company_risk_score returns the
\* triple an earlier call returned for the same id on the same tables,
\* whatever scoring, clustering or loading calls were made in between, and
\* the record of the company in a batch holds the same values, whatever the
\* company's place in the table.
C15_TripleIndependentOfEarlierCalls ==
    (memo.id # NoId /\ memo.tables = EngineTables) =>
        /\ (Scored /\ ret.arg_id = memo.id) =>
              /\ ret.risk_score = memo.risk_score
              /\ ret.confidence = memo.confidence
              /\ ret.indicators = memo.indicators
        /\ ret.op = "score_all" =>
              \A i \in DOMAIN ret.rows :
                  ret.rows[i].company_id = memo.id =>
                      /\ ret.rows[i].risk_score = memo.risk_score
                      /\ ret.rows[i].confidence_score = memo.confidence
                      /\ ret.rows[i].indicator_count = Len(memo.indicators)

\* a company is scored again, with indicators, after its triple was kept and
\* a load has since failed part-way
C15_Witness ==
    /\ Scored /\ ret.arg_id = memo.id /\ memo.tables = EngineTables
    /\ ret.indicators # <<>>
    /\ data_cache.companies # companies

\* C16: a call of calculate_company_risk_score, calculate_all_risk_scores or
\* detect_fraud_clusters leaves the graph (nodes, edges, attributes) and the
\* companies, directors, tenders and relationships tables as they were, also
\* when the id is not found.
C16_ScoringLeavesSnapshotUnchanged ==
    [][ret'.op \in {"score", "score_all", "clusters"} => UNCHANGED Engine]_vars

\* a scoring call for an id that is in no table and not in the graph has
\* failed
C16_Witness ==
    /\ ret.op = "score" /\ ret.status = "IndexError"
    /\ ret.arg_id \notin graph.nodes
    /\ ~InCompanies(ret.arg_id)

\* C18: the risk score of company c depends only on c's neighbourhood in the
\* graph and on two aggregates.  As stated: two snapshots that agree on c's
\* node, on the edges and nodes adjacent to c, on the mean contract value of
\* all tenders and on the largest degree give c the same risk score, also
\* when they differ in the address or registration year of a company that is
\* not connected to c.
GraphOf(T) ==
    build_networkx_graph(T.companies, T.directors, T.tenders, T.relationships)

RowsOf(T, c) == {r \in Range(T.companies) : r.company_id = c}

View(T, c) ==
    LET G == GraphOf(T)
        adjacent == {e \in DOMAIN G.edges : c \in e}
    IN  [node |-> RowsOf(T, c),
         edges |-> {<<e, G.edges[e]>> : e \in adjacent},
         tenders |-> {t \in Range(T.tenders) : {c, t.tender_id} \in adjacent},
         directors |-> {d \in Range(T.directors) : {c, d} \in adjacent},
         mean |-> IF T.tenders = <<>> THEN Zero
                  ELSE Frac(SumValues(T.tenders), Len(T.tenders)),
         max_degree |-> MaxOf({Degree(G, n) : n \in G.nodes} \cup {0})]

C18_ScoreDependsOnNeighbourhood ==
    (Scored /\ memo.id = ret.arg_id
            /\ View(memo.tables, ret.arg_id) = View(EngineTables, ret.arg_id)) =>
        ret.risk_score = memo.risk_score

\* C18, amended: the risk score of c is the same in two snapshots that agree
\* on the view above and also on the DIRECTOR_OF rows of c's directors, on
\* c's WON rows and the tenders they name, on the number of tenders, and on
\* the numbers of other companies that have c's address and c's
\* registration year.
Footprint(T, c) ==
    LET own == {r \in Range(T.relationships) : c \in {r.source_id, r.target_id}}
        director_ids == {r.source_id : r \in {x \in own : IsDirectorOf(x)
                                                           /\ x.target_id = c}}
        matches(field) ==
            Cardinality({i \in DOMAIN T.companies :
                /\ T.companies[i].company_id # c
                /\ \E r \in RowsOf(T, c) : T.companies[i][field] = r[field]})
    IN  [view |-> View(T, c),
         co_directed |-> {r \in Range(T.relationships) :
                             IsDirectorOf(r) /\ r.source_id \in director_ids},
         won |-> SelectSeq(T.relationships, LAMBDA r :
                     r.source_id = c /\ r.relationship_type = "WON"),
         won_tenders |-> SelectSeq(T.tenders, LAMBDA t :
                     \E r \in own : r.source_id = c /\ r.relationship_type = "WON"
                                    /\ r.target_id = t.tender_id),
         tenders |-> Len(T.tenders),
         same_address |-> matches("address"),
         same_year |-> matches("registration_year")]

C18_ScoreDependsOnFootprint ==
    (Scored /\ memo.id = ret.arg_id
            /\ Footprint(memo.tables, ret.arg_id)
                   = Footprint(EngineTables, ret.arg_id)) =>
        ret.risk_score = memo.risk_score

\* a company is scored on a snapshot that differs from the one its kept
\* score was computed on, in a company that is not connected to it
C18_Witness ==
    /\ Scored /\ memo.id = ret.arg_id
    /\ memo.tables # EngineTables
    /\ Footprint(memo.tables, ret.arg_id) = Footprint(EngineTables, ret.arg_id)
    /\ RLt(Zero, ret.risk_score)

\* C19: for a company with at least one won tender, the win-pattern factor is
\* clamp((value_ratio - 1.0) * 0.5 + win_frequency * 2.0, 0, 1), value_ratio
\* being the mean contract value of its won tenders over the mean contract
\* value of all tenders (1.0 when that mean is not positive) and
\* win_frequency its number of wins over the number of tenders: the factor is
\* never below 0 and never above 1.
WonTenders(c) ==
    {i \in DOMAIN tenders :
        \E r \in Range(relationships) :
            /\ r.source_id = c /\ r.relationship_type = "WON"
            /\ r.target_id = tenders[i].tender_id}

Wins(c) ==
    Cardinality({i \in DOMAIN relationships :
        /\ relationships[i].source_id = c
        /\ relationships[i].relationship_type = "WON"})

RECURSIVE SumOver(_)
SumOver(I) ==
    IF I = {} THEN 0
    ELSE LET i == CHOOSE i \in I : TRUE
         IN  tenders[i].contract_value + SumOver(I \ {i})

WinPattern(c) ==
    LET overall_mean == Frac(SumOver(DOMAIN tenders), Len(tenders))
        won_mean == Frac(SumOver(WonTenders(c)), Cardinality(WonTenders(c)))
        value_ratio == IF RLt(Zero, overall_mean) THEN RDiv(won_mean, overall_mean)
                       ELSE One
        win_frequency == Frac(Wins(c), Len(tenders))
    IN  Clamp01(RAdd(RMul(RSub(value_ratio, One), Frac(1, 2)),
                     RMul(win_frequency, Frac(2, 1))))

C19_WinPatternIsClamped ==
    (Scored /\ WonTenders(ret.arg_id) # {}) =>
        /\ ret.factors.win_pattern_score = WinPattern(ret.arg_id)
        /\ InUnit(ret.factors.win_pattern_score)

\* C20: the network-centrality factor of an id is its degree divided by the
\* largest degree of a node of the graph; it lies in [0,1] and is 1 exactly
\* for a node whose degree is the largest one (and not 0); it is 0.0 when the
\* id is not a node of the graph, when the graph has no node, and when every
\* node has degree 0.
IsMaxDegree(m) ==
    /\ \E n \in graph.nodes : Degree(graph, n) = m
    /\ \A n \in graph.nodes : Degree(graph, n) <= m

CentralityOf(c, v) ==
    /\ InUnit(v)
    /\ (c \notin graph.nodes \/ graph.nodes = {} \/ IsMaxDegree(0)) => v = Zero
    /\ \A m \in 1..Cardinality(DOMAIN graph.edges) + 1 :
          (c \in graph.nodes /\ IsMaxDegree(m)) =>
              /\ v[1] * m = Degree(graph, c) * v[2]
              /\ (v = One <=> Degree(graph, c) = m)

C20_CentralityIsDegreeOverMax ==
    (Scored \/ ret.op = "centrality") =>
        CentralityOf(ret.arg_id, ret.factors.centrality_score)

\* the centrality of a node that has edges, and fewer than another node, has
\* been computed
C20_Witness ==
    /\ ret.op = "centrality"
    /\ ret.arg_id \in graph.nodes
    /\ RLt(Zero, ret.factors.centrality_score)
    /\ RLt(ret.factors.centrality_score, One)

\* C17: in every state a request handler can observe, also after a load_data
\* call that failed part-way, the tables of data_cache are the tables the
\* engine holds and data_cache['risk_scores'] is the batch result computed
\* from them: all derive from one and the same load.
C17_SnapshotReplacedAtomically ==
    ret.op # "load_data" =>
        /\ data_cache.companies = companies
        /\ data_cache.directors = directors
        /\ data_cache.tenders = tenders
        /\ data_cache.relationships = relationships
        /\ data_cache.risk_scores = calculate_all_risk_scores

\* C21: for an entity that is a node of the graph the confidence is
\* min(0.5 + degree/20, 1.0): 0.5 at degree 0, 1.0 from degree 10 upwards, and
\* never lower for a node with more connections; for an entity that is not a
\* node it is 0.3.
ConfidenceAt(degree) ==
    IF degree >= 10 THEN One ELSE Frac(10 + degree, 20)

C21_ConfidenceFromDegree ==
    ret.op = "confidence" =>
        IF ret.arg_id \in graph.nodes
        THEN /\ ret.confidence = ConfidenceAt(Degree(graph, ret.arg_id))
             /\ Degree(graph, ret.arg_id) = 0 => ret.confidence = Frac(1, 2)
             /\ Degree(graph, ret.arg_id) >= 10 => ret.confidence = One
             /\ \A n \in graph.nodes :
                   Degree(graph, n) <= Degree(graph, ret.arg_id) =>
                       RLe(calculate_confidence(n), ret.confidence)
        ELSE ret.confidence = Frac(3, 10)

\* the confidence of a node with some, and fewer than ten, connections has
\* been computed, in a graph that also has a node with more than ten
C21_Witness ==
    /\ ret.op = "confidence" /\ ret.arg_id \in graph.nodes
    /\ RLt(Frac(1, 2), ret.confidence) /\ RLt(ret.confidence, One)
    /\ \E n \in graph.nodes : Degree(graph, n) > 10

\* C22: calculate_company_risk_score returns an indicator for a factor if and
\* only if the factor is strictly above its display threshold, and then
\* exactly one, with the stated severity: Shared Directors above 0.3 (High
\* above 0.6, else Medium), Suspicious Win Pattern above 0.4 (High above 0.7,
\* else Medium), High Network Centrality above 0.5 (Medium), Shell Company
\* Indicators above 0.5 (High).  A factor at its threshold gives none.
Emitted(name) == {i \in DOMAIN ret.indicators : ret.indicators[i].indicator = name}

EmitsFor(name, factor, threshold, high) ==
    /\ Cardinality(Emitted(name)) = (IF RLt(threshold, factor) THEN 1 ELSE 0)
    /\ \A i \in Emitted(name) :
          ret.indicators[i].severity = (IF RLt(high, factor) THEN "High" ELSE "Medium")

C22_IndicatorsAboveThresholds ==
    Scored =>
        /\ EmitsFor("Shared Directors", ret.factors.shared_director_score,
                    Frac(3, 10), Frac(6, 10))
        /\ EmitsFor("Suspicious Win Pattern", ret.factors.win_pattern_score,
                    Frac(4, 10), Frac(7, 10))
        /\ EmitsFor("High Network Centrality", ret.factors.centrality_score,
                    Frac(5, 10), Frac(2, 1))
        /\ EmitsFor("Shell Company Indicators", ret.factors.shell_score,
                    Frac(5, 10), Frac(5, 10))
        /\ \A i \in DOMAIN ret.indicators :
              ret.indicators[i].indicator \in
                  {"Shared Directors", "Suspicious Win Pattern",
                   "High Network Centrality", "Shell Company Indicators"}

\* a company whose shared-directors factor is exactly 0.3 is scored and gets
\* no Shared Directors indicator
C22_Witness ==
    /\ Scored /\ ret.factors.shared_director_score = Frac(3, 10)
    /\ Emitted("Shared Directors") = {}

\* C23: when the relationships table holds two rows of different types for
\* one pair of nodes, the graph keeps both types for the pair: the type of
\* every row is among the types the graph holds for the row's endpoints.
TypesOf(G, e) == IF e \in DOMAIN G.edges THEN {G.edges[e]} ELSE {}

C23_ParallelTypesKept ==
    \A r \in Range(relationships) :
        r.relationship_type \in TypesOf(graph, {r.source_id, r.target_id})

\* C24: degenerate data does not make scoring raise.  calculate_company_risk_score
\* returns a triple for every company of the table, and the batch a record
\* for each; with an empty tenders table the win-pattern factor is 0.0; when
\* the mean contract value of all tenders is zero the value ratio is 1.0, so
\* the factor is min(2 * wins / tenders, 1.0); when every node has degree 0
\* the centrality factor is 0.0.
MeanIsZero == tenders # <<>> /\ SumValues(tenders) = 0

C24_DegenerateDataIsGuarded ==
    /\ (ret.op = "score" /\ InCompanies(ret.arg_id)) =>
          /\ ret.status = "ok"
          /\ tenders = <<>> => ret.factors.win_pattern_score = Zero
          /\ (MeanIsZero /\ WonTenders(ret.arg_id) # {}) =>
                ret.factors.win_pattern_score =
                    RMin(Frac(2 * Wins(ret.arg_id), Len(tenders)), One)
          /\ IsMaxDegree(0) => ret.factors.centrality_score = Zero
    /\ ret.op = "score_all" =>
          ret.status = "ok" /\ Len(ret.rows) = Len(companies)

\* a company with a WON row is scored while the tenders table is empty
C24_Witness ==
    /\ Scored /\ tenders = <<>> /\ HasRow(ret.arg_id, "WON")
    /\ ret.factors.win_pattern_score = Zero

\* C25: every cluster detect_fraud_clusters returns is the set of the company
\* members of one community of a partition of all nodes of the graph: it
\* holds company ids only, it leaves out no company of its community, and no
\* company is in two returned clusters.
C25_ClustersAreCommunities ==
    (ret.op = "clusters" /\ ret.status = "ok") =>
        /\ \A cluster \in ret.clusters :
              \A m \in cluster : m[1] = "COMP" /\ InCompanies(m)
        /\ \A c1, c2 \in ret.clusters : c1 # c2 => c1 \cap c2 = {}
        /\ \E partition \in Partitions :
              \A cluster \in ret.clusters :
                  \E members \in Communities(partition) :
                      /\ cluster \subseteq members
                      /\ \A m \in members \ cluster : m[1] # "COMP"

\* two clusters are returned, one of them from a community that also holds a
\* director
C25_Witness ==
    /\ ret.op = "clusters" /\ ret.status = "ok"
    /\ Cardinality(ret.clusters) = 2
    /\ \E cluster \in ret.clusters :
          \E d \in Range(directors) : \A m \in cluster : {d, m} \in DOMAIN graph.edges

\* C27: every triple calculate_company_risk_score returns, and every record of
\* calculate_all_risk_scores, has a confidence of at least 0.5: the scored
\* company is a node of the graph, and an id without a company row raises
\* before the confidence is computed, so 0.3 is never returned by these two
\* operations.
C27_ScoredConfidenceAtLeastHalf ==
    /\ Scored =>
          /\ ret.arg_id \in graph.nodes
          /\ RLe(Frac(1, 2), ret.confidence)
    /\ (ret.op = "score" /\ ~InCompanies(ret.arg_id)) => ret.status = "IndexError"
    /\ ret.op = "score_all" =>
          \A i \in DOMAIN ret.rows :
              /\ ret.rows[i].company_id \in graph.nodes
              /\ RLe(Frac(1, 2), ret.rows[i].confidence_score)

\* a company without any relationship row is scored with confidence 0.5
C27_Witness ==
    /\ Scored /\ ret.confidence = Frac(1, 2)
    /\ \A r \in Range(relationships) : ret.arg_id \notin {r.source_id, r.target_id}
    /\ relationships # <<>>

\* C28: in the win-pattern factor the win count is the number of distinct
\* tenders the company won, the same tenders the mean won contract value is
\* taken over: win_frequency = wins / tenders is at most 1, also when the
\* relationships table holds several WON rows for one company and tender.
WinPatternOfDistinct(c) ==
    LET overall_mean == Frac(SumOver(DOMAIN tenders), Len(tenders))
        won_mean == Frac(SumOver(WonTenders(c)), Cardinality(WonTenders(c)))
        value_ratio == IF RLt(Zero, overall_mean) THEN RDiv(won_mean, overall_mean)
                       ELSE One
        win_frequency == Frac(Cardinality(WonTenders(c)), Len(tenders))
    IN  RMin(RAdd(RMul(RSub(value_ratio, One), Frac(1, 2)),
                  RMul(win_frequency, Frac(2, 1))), One)

C28_WinsAreDistinctTenders ==
    (Scored /\ WonTenders(ret.arg_id) # {}) =>
        /\ Len(WonRows(ret.arg_id)) = Cardinality(WonTenders(ret.arg_id))
        /\ Len(WonRows(ret.arg_id)) <= Len(tenders)
        /\ ret.factors.win_pattern_score = WinPatternOfDistinct(ret.arg_id)

\* C29: for every entity_id and every depth >= 0 the graph get_network_graph
\* returns holds company nodes only and is closed: both ends of every
\* returned edge are returned nodes.  The expansion runs at most depth
\* rounds and stops after the first round that leaves more than 50 nodes
\* included.
RECURSIVE Within(_, _)
Within(entity_id, k) ==
    IF k = 0 THEN {entity_id}
    ELSE LET inner == Within(entity_id, k - 1)
         IN  inner \cup {n \in UNION {{r.source_id, r.target_id} :
                                         r \in Range(data_cache.relationships)} :
                           /\ n[1] = "COMP"
                           /\ \E r \in Range(data_cache.relationships) :
                                 /\ n \in {r.source_id, r.target_id}
                                 /\ {r.source_id, r.target_id} \cap inner # {}}

NodeIds == {n.id : n \in ret.nodes}

C29_NetworkGraphIsClosed ==
    ret.op = "graph" =>
        /\ \A n \in NodeIds : n[1] = "COMP"
        /\ \A e \in ret.edges : e.source_id \in NodeIds /\ e.target_id \in NodeIds
        /\ ret.rounds <= ret.arg_depth
        /\ ret.arg_id # NoId =>
              /\ \A k \in 0..(ret.rounds - 1) :
                    k > 0 => Cardinality(Within(ret.arg_id, k)) <= GraphLimit
              /\ ret.rounds < ret.arg_depth =>
                    Cardinality(Within(ret.arg_id, ret.rounds)) > GraphLimit
              /\ NodeIds = {n \in Within(ret.arg_id, ret.rounds) : n[1] = "COMP"}

\* the expansion from a director was asked for two rounds and stopped after
\* the first, which left the director and 50 companies included; the rows
\* collected all start at the director, so no edge is returned, although
\* the table holds a row between two companies
C29_Witness ==
    /\ ret.op = "graph" /\ ret.arg_depth = 2 /\ ret.rounds = 1
    /\ Cardinality(NodeIds) = GraphLimit
    /\ ret.edges = {}
    /\ \E r \in Range(data_cache.relationships) :
          r.source_id[1] = "COMP" /\ r.target_id[1] = "COMP"

\* C26: once connect() has returned False, every later request is served from
\* the CSV fallback: no handler (root, dashboard stats, company detail,
\* network graph, clusters, status) takes the Neo4j branch or issues a query,
\* and root and status report the CSV fallback.
C26_FailedConnectServesCsv ==
    (neo4j_connector.created /\ ~neo4j_connector.connected) =>
        /\ ret.branch # "neo4j"
        /\ ~ret.queried
        /\ ret.op = "root" => ret.mode = "CSV (Fallback)"
        /\ ret.op = "status" => ret.mode = "disconnected"

\* C30: in every generated dataset the WON relationships agree with the
\* tender table: each tender has a WON row from its winning_company_id, and
\* no WON row names a different company for that tender.
C30_WonRowsAgreeWithTenders ==
    generator.pc = "done" =>
        \A i \in DOMAIN generator.tenders :
            LET t == generator.tenders[i]
                won == {r \in Range(generator.relationships) :
                           r.relationship_type = "WON" /\ r.target_id = t.tender_id}
            IN  /\ \E r \in won : r.source_id = t.winning_company_id
                /\ \A r \in won : r.source_id = t.winning_company_id

====
